---- MODULE Spec2Model ----
(***************************************************************************)
(* Model of LiveClient (src/services/liveClient.ts, current revision,      *)
(* lines 65-395) as a state machine.  JavaScript runs every synchronous    *)
(* segment of a handler to completion, so one action is one segment: from  *)
(* a call or a resumption up to the next await or the end of the handler.  *)
(*                                                                         *)
(* Resources are named after the connect() call that created them: the     *)
(* k-th connect() creates input context k, output context k, capture       *)
(* stream k, metering loop k and remote session k.  0 stands for null.     *)
(*                                                                         *)
(* Platform behaviour the model relies on (Web Audio / Promises):          *)
(*  - AudioContext.close() on a context whose close() was already called   *)
(*    returns a rejected promise (InvalidStateError);                      *)
(*  - a handler attached with .then to a fulfilled promise runs before the *)
(*    next task, so it is folded into the segment that attached it;        *)
(*  - a new AudioContext starts with currentTime = 0.                      *)
(***************************************************************************)
EXTENDS Integers, Sequences, FiniteSets, TLC

\* ---- bounds of the model ------------------------------------------------
\* connect() calls in a run of Spec; SpecFull allows one more, so that a
\* connect() can overlap or follow another.
MaxConnects == 1
\* stop() calls made by the caller (the client's own calls are not counted).
MaxStops == 2
\* inbound audio messages, the output clock, and a buffer's duration.
MaxMsgs == 1
MaxTime == 2
MaxDur == 1
\* the same three for the runs of SpecPlay, and there a payload holds up to
\* MaxLen samples; one unit of time is the duration of one sample.
MaxBufs == 2
MaxClock == 3
MaxLen == 2
\* capture: the frame length RecorderProcessor runs with in the model (the
\* code's is 2048, liveClient.ts 16, used only through this.bufferSize), the
\* largest batch of samples one process() call is given, and the samples
\* the capture nodes are given in a run.
FrameLen == 2
MaxBatch == 3
MaxFed == 5
\* metering: the length of the analyser window in the model (the code's
\* dataArray has 64 bytes, liveClient.ts 319).
WinLen == 2
\* the sample codec: the pairs of bytes in a payload, and the steps between
\* 0.0 and 1.0 of the samples given to the encoder.
MaxPairs == 2
Steps == 4

\* the lookahead of the earlier revision's queueAudio (liveClient.ts 629):
\* 0.05 s, which is 1200 samples at 24000 Hz.
Epsilon == 1200

Conns == 1..(MaxConnects + 1)
Max(a, b) == IF a >= b THEN a ELSE b

VARIABLES
  \* LiveClient fields (liveClient.ts 66-87)
  active, inputContext, outputContext, stream, workletNode, sourceNode,
  currentSession, cleanupFrame, inputAnalyser, outputAnalyser,
  onVolumeChange, nextStartTime,
  \* platform resources
  inClose,      \* inClose[k]: close() calls made on input context k
  outClose,     \* outClose[k]: close() calls made on output context k
  streamAcq,    \* streamAcq[k]: getUserMedia of connect k delivered a stream
  trackStops,   \* trackStops[k]: times the tracks of stream k were stopped
  raf,          \* metering loops with an animation frame pending
  sess,         \* sess[k]: state of the promise returned by ai.live.connect
  closeWait,    \* closeWait[k]: close handlers waiting for session k's promise
  sessClose,    \* sessClose[k]: session.close() calls made on session k
  oncloseFired, \* oncloseFired[k]: session k delivered its close event
  errSeen,      \* errSeen[k]: session k delivered an error event
  now,          \* currentTime of the context this.outputContext refers to
  wired,        \* the capture nodes whose source is connected; the nodes made
                \* by startAudioStreaming at the onopen of session k are named k
  recorder,     \* recorder[k]: the RecorderProcessor of worklet node k
  ports,        \* ports[k]: frames node k's processor posted, not yet handled
  sendWait,     \* sendWait[k]: chunks whose send waits for session k's promise
  sent,         \* the sendRealtimeInput calls made so far, in order
  handled,      \* the frames workletNode.port.onmessage was given, in order
  reports,      \* when observed: the onVolumeChange calls of the last update()
  codec,        \* the last conversion made by the sample codec, with its input
  decodeQ,      \* payloads posted to the decoder worker, not yet taken by it
  decodedQ,     \* sample arrays the worker posted back, not yet handled
  msgs,         \* the inbound messages delivered so far, in order of arrival
  fate,         \* fate[i]: what has become of the payload of message i
  starts,       \* the source.start calls made so far, in order: for the buffer
                \* of message id, started at at, of duration dur, with the
                \* clock at now, the timeline at nst before and next after,
                \* seen messages delivered and behind payloads still in flight
  drops,        \* the buffers createBuffer refused, in order: of message id,
                \* with the timeline at nst and the clock at now in that call
  \* activations of the async methods
  pcC,          \* pcC[k]: where the k-th connect() is
  awaitIn,      \* stop() activations suspended at await inputContext.close()
  awaitOut,     \* stop() activations suspended at await outputContext.close()
  stopRejects,  \* stop() activations that ended by rejecting
  held,         \* the stop() activation that is suspended (0: none), when observed
  teardown,     \* when observed: the steps stop() activations took, in order,
                \* each as <<activation, step>>
  \* the caller
  connLimit,    \* connect() calls the caller may make in this run
  msgLimit,     \* inbound messages the session may deliver in this run
  timeLimit,    \* how far the output clock runs in this run
  fedLimit,     \* samples the capture nodes are given in this run
  observe,      \* what this run records: "stop" the steps of stop() in
                \* teardown, "calls" the calls of update() in reports,
                \* "meter" the same with every window the analysers give
                \* "sink" the failures of setSinkId in sinkWarned
  nConn, nStops, nMsgs,
  lastCall,     \* the last public call: "none", "connect" or "stop"
  stoppedDuring,\* stoppedDuring[k]: stop() was called while connect k was suspended
  alerts,       \* failed starts reported by App.startSession
  sinkWarned    \* when observed: sinkWarned[k], connect k logged that the
                \* output device could not be selected (line 190)

audio == <<decodeQ, decodedQ, msgs, fate, starts, drops>>
capture == <<recorder, ports, sendWait, sent, handled>>
fields == <<active, inputContext, outputContext, stream, workletNode, sourceNode,
            currentSession, cleanupFrame, inputAnalyser, outputAnalyser,
            onVolumeChange, nextStartTime>>
platform == <<inClose, outClose, streamAcq, trackStops, raf, sess, closeWait,
              sessClose, oncloseFired, errSeen, now, wired, audio, capture,
              reports, codec>>
frames == <<pcC, awaitIn, awaitOut, stopRejects, held, teardown>>
limits == <<connLimit, msgLimit, timeLimit, fedLimit, observe>>
caller == <<limits, nConn, nStops, nMsgs, lastCall, stoppedDuring, alerts,
            sinkWarned>>
vars == <<fields, platform, frames, caller>>

\* ---- the part of the state stop() reads and writes, as one record -------
\* frame is the stop() activation whose segment is running.
Cur ==
  [active |-> active, inputContext |-> inputContext, outputContext |-> outputContext,
   stream |-> stream, workletNode |-> workletNode, sourceNode |-> sourceNode,
   currentSession |-> currentSession, cleanupFrame |-> cleanupFrame,
   inClose |-> inClose, outClose |-> outClose, trackStops |-> trackStops,
   raf |-> raf, closeWait |-> closeWait, sessClose |-> sessClose,
   awaitIn |-> awaitIn, awaitOut |-> awaitOut, stopRejects |-> stopRejects,
   held |-> held, teardown |-> teardown, frame |-> held,
   wired |-> wired, reports |-> reports]

\* The fields take the values of record s.
Assign(s) ==
  /\ active' = s.active
  /\ inputContext' = s.inputContext
  /\ outputContext' = s.outputContext
  /\ stream' = s.stream
  /\ workletNode' = s.workletNode
  /\ sourceNode' = s.sourceNode
  /\ currentSession' = s.currentSession
  /\ cleanupFrame' = s.cleanupFrame
  /\ inClose' = s.inClose
  /\ outClose' = s.outClose
  /\ trackStops' = s.trackStops
  /\ raf' = s.raf
  /\ closeWait' = s.closeWait
  /\ sessClose' = s.sessClose
  /\ awaitIn' = s.awaitIn
  /\ awaitOut' = s.awaitOut
  /\ stopRejects' = s.stopRejects
  /\ held' = s.held
  /\ teardown' = s.teardown
  /\ wired' = s.wired
  /\ reports' = s.reports

\* The state after a segment that leaves record s (s is computed once).
Commit(s) == \E r \in {s} : Assign(r)

\* ---- observation of stop() ----------------------------------------------
\* The running activation takes step e / is suspended at an await.
Step(s, e) ==
  IF "stop" \in observe
  THEN [s EXCEPT !.teardown = Append(@, <<s.frame, e>>)]
  ELSE s

Suspend(s) == IF "stop" \in observe THEN [s EXCEPT !.held = s.frame] ELSE s

\* stop() activations started so far, as recorded.
Calls(log) == Cardinality({i \in DOMAIN log : log[i][2] = "call"})

\* ---- stop() (liveClient.ts 353-394) ------------------------------------
\* Lines 386-393 with the session awaited and closed in stop() itself: a
\* session promise that rejected, or a session that is gone, makes stop()
\* throw before the handle is forgotten.
StopSessionAwaited(s) ==
  IF s.currentSession # 0
  THEN LET k == s.currentSession IN
       IF sess[k] = "failed" \/ oncloseFired[k]
       THEN Step([s EXCEPT !.stopRejects = @ + 1], "closeSession")
       ELSE Step([s EXCEPT !.sessClose[k] = IF sess[k] = "open" THEN @ + 1 ELSE @,
                           !.closeWait[k] = IF sess[k] = "pending" THEN @ + 1 ELSE @,
                           !.currentSession = 0],
                 "closeSession")
  ELSE s

\* lines 386-393: request close of the session, forget the handle, return.
\* The close is asked for in a handler attached to the session promise,
\* whose failures end in the empty catch of line 391.
StopSession(s) ==
  IF s.currentSession # 0
  THEN LET k == s.currentSession IN
       Step([s EXCEPT !.sessClose[k] = IF sess[k] = "open" THEN @ + 1 ELSE @,
                      !.closeWait[k] = IF sess[k] = "pending" THEN @ + 1 ELSE @,
                      !.currentSession = 0],
            "closeSession")
  ELSE s

\* StopOutput with the session closed before the output context.
StopOutputSessionFirst(s) ==
  LET u == StopSession(s) IN
  IF u.outputContext # 0
  THEN LET k == u.outputContext IN
       IF u.outClose[k] = 0
       THEN Suspend(Step([u EXCEPT !.outClose[k] = 1, !.awaitOut = @ + 1],
                         "closeOutput"))
       ELSE Step([u EXCEPT !.outClose[k] = @ + 1, !.stopRejects = @ + 1],
                 "closeOutput")
  ELSE u

\* lines 381-384 up to the await, then 386-393 when there is no output context.
StopOutput(s) ==
  IF s.outputContext # 0
  THEN LET k == s.outputContext IN
       IF s.outClose[k] = 0
       THEN Suspend(Step([s EXCEPT !.outClose[k] = 1, !.awaitOut = @ + 1],
                         "closeOutput"))
       ELSE Step([s EXCEPT !.outClose[k] = @ + 1, !.stopRejects = @ + 1],
                 "closeOutput")
  ELSE StopSession(s)

\* StopInput without the null guard of line 376: close() on null throws.
StopInputUnguarded(s) ==
  IF s.inputContext # 0
  THEN LET k == s.inputContext IN
       IF s.inClose[k] = 0
       THEN Suspend(Step([s EXCEPT !.inClose[k] = 1, !.awaitIn = @ + 1],
                         "closeInput"))
       ELSE Step([s EXCEPT !.inClose[k] = @ + 1, !.stopRejects = @ + 1],
                 "closeInput")
  ELSE [s EXCEPT !.stopRejects = @ + 1]

\* lines 376-379 up to the await, then on to the output context.
StopInput(s) ==
  IF s.inputContext # 0
  THEN LET k == s.inputContext IN
       IF s.inClose[k] = 0
       THEN Suspend(Step([s EXCEPT !.inClose[k] = 1, !.awaitIn = @ + 1],
                         "closeInput"))
       ELSE Step([s EXCEPT !.inClose[k] = @ + 1, !.stopRejects = @ + 1],
                 "closeInput")
  ELSE StopOutput(s)

\* lines 353-354: a new activation; the flag.
StopEnter(s) ==
  Step([s EXCEPT !.active = FALSE, !.frame = Calls(s.teardown) + 1], "call")

\* stop() without lines 356-359: the frame is left pending.
StopFrameKept(s) == s

\* lines 356-359: the metering frame.
StopFrame(s) ==
  IF s.cleanupFrame # 0
  THEN Step([s EXCEPT !.raf = @ \ {s.cleanupFrame}, !.cleanupFrame = 0],
            "cancelFrame")
  ELSE s

\* lines 361-364 and 366-369: the nodes.  Disconnecting the worklet node
\* cuts its output; disconnecting the source cuts the worklet's input.
StopWorklet(s) ==
  IF s.workletNode # 0
  THEN Step([s EXCEPT !.workletNode = 0], "disconnectWorklet")
  ELSE s

StopSource(s) ==
  IF s.sourceNode # 0
  THEN Step([s EXCEPT !.wired = @ \ {s.sourceNode}, !.sourceNode = 0],
            "disconnectSource")
  ELSE s

\* lines 371-374: the tracks.
StopTracks(s) ==
  IF s.stream # 0
  THEN Step([s EXCEPT !.trackStops[s.stream] = @ + 1, !.stream = 0],
            "stopTracks")
  ELSE s

\* lines 354-374: the flag, the metering frame, the nodes, the tracks.
StopHead(s) == StopTracks(StopSource(StopWorklet(StopFrame(StopEnter(s)))))

\* stop() from its call to its first await (or to its end).
StopSync(s) == StopInput(StopHead(s))


\* No conversion made yet.
NoConversion == [op |-> "none", input |-> <<>>, wire |-> <<>>, output |-> <<>>]

\* ---- the sample codec ---------------------------------------------------
\* The decoder worker's divisor (line 57): a decoded sample is counted in
\* units of 1/32768, so dataInt16[i] / 32768.0 is dataInt16[i] in this unit.
\* The quotient is exact: a 16-bit integer fits a Float32's mantissa.
Scale == 32768

\* The two bytes of an Int16Array element read most significant first.
WordBigEndian(lo, hi) == hi + 256 * lo

\* new Int16Array(bytes.buffer), line 54: the element made of the bytes at
\* an even offset and the next one, least significant first.
Word(lo, hi) == lo + 256 * hi

\* The element read as an unsigned integer.
Int16Unsigned(u) == u

\* The element read as a signed 16-bit integer.
Int16(u) == IF u >= 32768 THEN u - 65536 ELSE u

\* lines 54-58: the samples the worker makes of the bytes of a payload of
\* even length.
float32(bytes) ==
  [i \in 1..(Len(bytes) \div 2) |-> Int16(Word(bytes[2 * i - 1], bytes[2 * i]))]

\* The encoder, pcmToGeminiBlob: sample16 = round(clamp(sample, -1.0, 1.0) *
\* 32767).  A sample given to it is counted in units of 1/Steps.
EncodeScale == 32767

Clamp(x) == IF x < -Steps THEN -Steps ELSE IF x > Steps THEN Steps ELSE x

\* num / den rounded to the nearest integer; up tells which way a tie goes.
Round(num, den, up) ==
  LET fl == num \div den
      r == num % den
  IN IF 2 * r < den THEN fl
     ELSE IF 2 * r > den THEN fl + 1
     ELSE IF up THEN fl + 1 ELSE fl

sample16(x, up) == Round(Clamp(x) * EncodeScale, Steps, up)

\* The two bytes of a 16-bit integer, least significant first.
BytesOf(v) == LET u == v % 65536 IN <<u % 256, u \div 256>>

RECURSIVE Encoded(_, _)
Encoded(ints, i) ==
  IF i > Len(ints) THEN <<>> ELSE BytesOf(ints[i]) \o Encoded(ints, i + 1)

\* The payloads the decoder is given in the model's runs: every payload of
\* two bytes, and the payloads of up to MaxPairs pairs of these bytes.
CodecBytes == {0, 1, 127, 128, 255}
PayloadBytes ==
  [1..2 -> 0..255] \cup UNION {[1..(2 * n) -> CodecBytes] : n \in 0..MaxPairs}

\* The frames the encoder is given: samples from -2.0 to 2.0.
Inputs == UNION {[1..n -> (-2 * Steps)..(2 * Steps)] : n \in 1..FrameLen}

\* ---- RecorderProcessor (liveClient.ts 13-35) -----------------------------
\* The n-th sample the source of capture node k delivers, and the value a
\* new Float32Array holds, which no source delivered.
Sample(k, n) == <<k, n>>
Silence == <<0, 0>>

NoRecorder ==
  [made |-> FALSE, ctx |-> 0, buffer |-> <<>>, index |-> 0, fed |-> 0,
   posted |-> 0, split |-> FALSE]

\* A processor that goes on with the accumulator of the node made before it.
RecorderProcessorShared(ctx) ==
  IF \E j \in Conns : recorder[j].made
  THEN LET j == CHOOSE i \in Conns :
                  /\ recorder[i].made
                  /\ \A h \in Conns : recorder[h].made => h <= i
       IN [recorder[j] EXCEPT !.ctx = ctx, !.fed = 0, !.posted = 0,
                              !.split = FALSE]
  ELSE [made |-> TRUE, ctx |-> ctx,
        buffer |-> [i \in 1..FrameLen |-> Silence], index |-> 0, fed |-> 0,
        posted |-> 0, split |-> FALSE]

\* The constructor (lines 14-19), for a node of input context ctx: an empty
\* accumulator.  fed and posted count the samples given and the frames
\* posted; split notes that a batch was cut by the end of a frame.
RecorderProcessor(ctx) ==
  [made |-> TRUE, ctx |-> ctx,
   buffer |-> [i \in 1..FrameLen |-> Silence], index |-> 0, fed |-> 0,
   posted |-> 0, split |-> FALSE]

\* The accumulator is full: line 27 with > for >=.
FrameFullLate(index) == index > FrameLen

\* line 27.
FrameFull(index) == index >= FrameLen

\* The loop of process() (lines 25-31) from sample i of channel on: p holds
\* the accumulator, the index and the frames posted in this call.  A write
\* beyond the end of a Float32Array is ignored.
RECURSIVE ProcessLoop(_, _, _)
ProcessLoop(p, channel, i) ==
  IF i > Len(channel) THEN p
  ELSE LET b == [j \in 1..Len(p.buffer) |->
                   IF j = p.index + 1 THEN channel[i] ELSE p.buffer[j]]
           ix == p.index + 1
       IN IF FrameFull(ix)
          THEN ProcessLoop([buffer |-> b, index |-> 0, out |-> Append(p.out, b)],
                           channel, i + 1)
          ELSE ProcessLoop([buffer |-> b, index |-> ix, out |-> p.out],
                           channel, i + 1)

\* Samples given to all capture nodes so far.
RECURSIVE FedUpTo(_)
FedUpTo(k) == IF k = 0 THEN 0 ELSE recorder[k].fed + FedUpTo(k - 1)

\* ---- construction (liveClient.ts 66-92) ---------------------------------
InitIdle ==
  /\ active = FALSE /\ inputContext = 0 /\ outputContext = 0 /\ stream = 0
  /\ workletNode = 0 /\ sourceNode = 0 /\ currentSession = 0 /\ cleanupFrame = 0
  /\ inputAnalyser = 0 /\ outputAnalyser = 0 /\ onVolumeChange = FALSE
  /\ nextStartTime = 0
  /\ inClose = [k \in Conns |-> 0] /\ outClose = [k \in Conns |-> 0]
  /\ streamAcq = [k \in Conns |-> FALSE] /\ trackStops = [k \in Conns |-> 0]
  /\ raf = {} /\ sess = [k \in Conns |-> "none"]
  /\ closeWait = [k \in Conns |-> 0] /\ sessClose = [k \in Conns |-> 0]
  /\ oncloseFired = [k \in Conns |-> FALSE] /\ errSeen = [k \in Conns |-> FALSE]
  /\ now = 0
  /\ decodeQ = <<>> /\ decodedQ = <<>> /\ msgs = <<>> /\ fate = <<>> /\ starts = <<>>
  /\ drops = <<>>
  /\ wired = {} /\ recorder = [k \in Conns |-> NoRecorder]
  /\ ports = [k \in Conns |-> <<>>] /\ sendWait = [k \in Conns |-> <<>>]
  /\ sent = <<>> /\ handled = <<>> /\ reports = <<>>
  /\ pcC = [k \in Conns |-> "idle"]
  /\ awaitIn = 0 /\ awaitOut = 0 /\ stopRejects = 0
  /\ held = 0 /\ teardown = <<>>
  /\ nConn = 0 /\ nStops = 0 /\ nMsgs = 0 /\ lastCall = "none"
  /\ stoppedDuring = [k \in Conns |-> FALSE] /\ alerts = 0
  /\ sinkWarned = [k \in Conns |-> FALSE]

InitClient == InitIdle /\ codec = NoConversion

Init ==
  /\ InitClient
  /\ connLimit = MaxConnects /\ msgLimit = MaxMsgs /\ timeLimit = MaxTime
  /\ fedLimit = 0 /\ observe = {}

InitFull ==
  /\ InitClient
  /\ connLimit = MaxConnects + 1 /\ msgLimit = MaxMsgs /\ timeLimit = MaxTime
  /\ fedLimit = 0 /\ observe = {}

\* One session, with the steps of every stop() recorded.  With one connect()
\* at most one stop() is suspended at a time (a second one finds the context
\* closed and ends in its first segment), so the suspended one is the one
\* that any resumption continues.
InitStop ==
  /\ InitClient
  /\ connLimit = 1 /\ msgLimit = MaxMsgs /\ timeLimit = MaxTime
  /\ fedLimit = 0 /\ observe = {"stop"}

\* The first session streaming: connect() has returned, the session has
\* opened and startAudioStreaming has run; the output clock is at 0.
Streaming ==
  /\ active = TRUE /\ inputContext = 1 /\ outputContext = 1 /\ stream = 1
  /\ workletNode = 1 /\ sourceNode = 1 /\ currentSession = 1 /\ cleanupFrame = 1
  /\ inputAnalyser = 1 /\ outputAnalyser = 1 /\ onVolumeChange = TRUE
  /\ nextStartTime = 0
  /\ inClose = [k \in Conns |-> 0] /\ outClose = [k \in Conns |-> 0]
  /\ streamAcq = [k \in Conns |-> k = 1] /\ trackStops = [k \in Conns |-> 0]
  /\ raf = {1} /\ sess = [k \in Conns |-> IF k = 1 THEN "open" ELSE "none"]
  /\ closeWait = [k \in Conns |-> 0] /\ sessClose = [k \in Conns |-> 0]
  /\ oncloseFired = [k \in Conns |-> FALSE] /\ errSeen = [k \in Conns |-> FALSE]
  /\ now = 0
  /\ decodeQ = <<>> /\ decodedQ = <<>> /\ msgs = <<>> /\ fate = <<>> /\ starts = <<>>
  /\ drops = <<>>
  /\ wired = {} /\ recorder = [k \in Conns |-> NoRecorder]
  /\ ports = [k \in Conns |-> <<>>] /\ sendWait = [k \in Conns |-> <<>>]
  /\ sent = <<>> /\ handled = <<>> /\ reports = <<>> /\ codec = NoConversion
  /\ pcC = [k \in Conns |-> IF k = 1 THEN "resolved" ELSE "idle"]
  /\ awaitIn = 0 /\ awaitOut = 0 /\ stopRejects = 0
  /\ held = 0 /\ teardown = <<>>
  /\ nConn = 1 /\ nStops = 0 /\ nMsgs = 0 /\ lastCall = "connect"
  /\ stoppedDuring = [k \in Conns |-> FALSE] /\ alerts = 0
  /\ sinkWarned = [k \in Conns |-> FALSE]

\* Playback in the first session: the state Spec reaches by connect(), the
\* two awaits resolving and the session opening.
InitPlay ==
  /\ Streaming
  /\ connLimit = 1 /\ msgLimit = MaxBufs /\ timeLimit = MaxClock
  /\ fedLimit = 0 /\ observe = {}

Suspended == {"addModule", "setSinkId", "getUserMedia"}
Rejected == {"rej_addModule", "rej_getUserMedia", "rej_TypeError"}

\* ---- connect() (liveClient.ts 159-250) ----------------------------------
\* connect() starting the timeline afresh.
ConnectCallRewound ==
  /\ nConn < connLimit
  /\ nConn' = nConn + 1
  /\ Commit([Cur EXCEPT !.active = TRUE, !.inputContext = nConn + 1,
                        !.outputContext = nConn + 1])
  /\ onVolumeChange' = TRUE
  /\ now' = 0
  /\ nextStartTime' = 0
  /\ pcC' = [pcC EXCEPT ![nConn + 1] = "addModule"]
  /\ lastCall' = "connect"
  /\ UNCHANGED <<inputAnalyser, outputAnalyser, streamAcq, sess,
                 oncloseFired, errSeen, audio, capture, codec, nStops, nMsgs, stoppedDuring,
                 alerts, limits,
                 sinkWarned>>

\* lines 160-172: the call, up to await addModule.
ConnectCall ==
  /\ nConn < connLimit
  /\ nConn' = nConn + 1
  /\ Commit([Cur EXCEPT !.active = TRUE, !.inputContext = nConn + 1,
                        !.outputContext = nConn + 1])
  /\ onVolumeChange' = TRUE
  /\ now' = 0
  /\ pcC' = [pcC EXCEPT ![nConn + 1] = "addModule"]
  /\ lastCall' = "connect"
  /\ UNCHANGED <<inputAnalyser, outputAnalyser, nextStartTime, streamAcq, sess,
                 oncloseFired, errSeen, audio, capture, codec, nStops, nMsgs, stoppedDuring,
                 alerts, limits,
                 sinkWarned>>

\* lines 173-178: addModule rejected; stop() is called and not awaited, then
\* the error is rethrown and App.startSession reports it (part_001 113-116).
ConnectAddModuleFail(k) ==
  /\ pcC[k] = "addModule"
  /\ Commit(StopSync(Cur))
  /\ pcC' = [pcC EXCEPT ![k] = "rej_addModule"]
  /\ alerts' = alerts + 1
  /\ UNCHANGED <<inputAnalyser, outputAnalyser, onVolumeChange, nextStartTime,
                 streamAcq, sess, oncloseFired, errSeen, now, audio, capture, codec, nConn,
                 nStops, nMsgs, lastCall, stoppedDuring, limits,
                 sinkWarned>>

\* ---- the levels of the metering loop (liveClient.ts 318-351) ------------
\* 1.0, in the unit levels are counted in: (b - 128) / 128.0 of line 329 is
\* b - 128 in this unit.
One == 128

\* The bytes an analyser window is made of in the model's runs: the two ends
\* of the range, the midpoint (silence) and the deviation at which 4 * rms
\* reaches 1.0.
ByteSamples == {0, 128, 160, 255}
Quiet == [i \in 1..WinLen |-> 128]
Windows ==
  IF "meter" \in observe THEN [1..WinLen -> ByteSamples] ELSE {Quiet}

Abs(x) == IF x < 0 THEN -x ELSE x

\* lines 327-331: the sum of x * x over the first i bytes of window w.
RECURSIVE SumSquares(_, _)
SumSquares(w, i) ==
  IF i = 0 THEN 0 ELSE (w[i] - 128) * (w[i] - 128) + SumSquares(w, i - 1)

\* Math.sqrt, rounded down to the unit: the root lies in lo..hi.
RECURSIVE SqrtIn(_, _, _)
SqrtIn(x, lo, hi) ==
  IF lo = hi THEN lo
  ELSE LET mid == (lo + hi + 1) \div 2
       IN IF mid * mid <= x THEN SqrtIn(x, mid, hi) ELSE SqrtIn(x, lo, mid - 1)

Sqrt(x) == SqrtIn(x, 0, One)

\* line 332.
Rms(w) == Sqrt(SumSquares(w, Len(w)) \div Len(w))

\* line 334 without Math.min.
LevelBoosted(w) == Rms(w) * 4

\* lines 334 and 345: the level reported.
Level(w) == LET boosted == Rms(w) * 4 IN IF boosted < One THEN boosted ELSE One

\* The earlier revision's level (lines 649-655): the largest deviation from
\* the midpoint, max / 128.
RECURSIVE PeakLevel(_, _)
PeakLevel(w, i) ==
  IF i = 0 THEN 0 ELSE Max(Abs(w[i] - 128), PeakLevel(w, i - 1))

\* lines 324-346: the onVolumeChange calls of one update(), given whether
\* each analyser and the callback are there and the windows the analysers
\* give; peak is what the earlier revision reports for the same window.
VolumeCalls(hasIn, hasOut, wi, wo) ==
  (IF hasIn
   THEN << [type |-> "input", level |-> Level(wi),
            peak |-> PeakLevel(wi, Len(wi))] >>
   ELSE <<>>)
  \o (IF hasOut
      THEN << [type |-> "output", level |-> Level(wo),
               peak |-> PeakLevel(wo, Len(wo))] >>
      ELSE <<>>)

Metered(calls) ==
  IF "meter" \in observe \/ "calls" \in observe THEN calls ELSE reports

\* startVolumeMonitoring (lines 318-351): the first update() runs at once,
\* with the analysers connect() has just made.
StartVolumeMonitoring(s, k) ==
  IF s.active
  THEN [s EXCEPT !.cleanupFrame = k, !.raf = @ \cup {k},
                 !.reports = Metered(VolumeCalls(TRUE, TRUE, Quiet, Quiet))]
  ELSE [s EXCEPT !.reports = Metered(<<>>)]

\* lines 194-215: analysers, metering, up to await getUserMedia.  A null
\* context makes createAnalyser throw a TypeError that nothing catches.
Analysers(k) ==
  /\ IF inputContext = 0
     THEN /\ pcC' = [pcC EXCEPT ![k] = "rej_TypeError"]
          /\ alerts' = alerts + 1
          /\ UNCHANGED <<inputAnalyser, outputAnalyser>>
          /\ Commit(Cur)
     ELSE IF outputContext = 0
     THEN /\ pcC' = [pcC EXCEPT ![k] = "rej_TypeError"]
          /\ alerts' = alerts + 1
          /\ inputAnalyser' = inputContext
          /\ UNCHANGED outputAnalyser
          /\ Commit(Cur)
     ELSE /\ pcC' = [pcC EXCEPT ![k] = "getUserMedia"]
          /\ UNCHANGED alerts
          /\ inputAnalyser' = inputContext
          /\ outputAnalyser' = outputContext
          /\ Commit(StartVolumeMonitoring(Cur, k))
  /\ UNCHANGED <<onVolumeChange, nextStartTime, streamAcq, sess, oncloseFired,
                 errSeen, now, audio, capture, codec, nConn, nStops, nMsgs, lastCall,
                 stoppedDuring, limits>>

\* lines 180-192: addModule resolved; the safety check, then setSinkId when a
\* speaker device is configured.
ConnectAddModuleOk(k, speaker) ==
  /\ pcC[k] = "addModule"
  /\ IF ~active \/ inputContext = 0 \/ outputContext = 0
     THEN /\ pcC' = [pcC EXCEPT ![k] = "resolved"]
          /\ UNCHANGED <<fields, platform, awaitIn, awaitOut, stopRejects,
                         held, teardown, caller>>
     ELSE IF speaker
     THEN /\ pcC' = [pcC EXCEPT ![k] = "setSinkId"]
          /\ UNCHANGED <<fields, platform, awaitIn, awaitOut, stopRejects,
                         held, teardown, caller>>
     ELSE Analysers(k) /\ UNCHANGED sinkWarned

\* The warning of line 190, noted when the run observes it.
Warned(k, ok) ==
  IF "sink" \in observe THEN [sinkWarned EXCEPT ![k] = ~ok] ELSE sinkWarned

\* ConnectSetSinkDone without the try/catch of lines 187-191: a rejection of
\* setSinkId leaves connect(), and App.startSession reports it.
ConnectSetSinkFatal(k, ok) ==
  /\ pcC[k] = "setSinkId"
  /\ sinkWarned' = Warned(k, ok)
  /\ IF ok
     THEN Analysers(k)
     ELSE /\ pcC' = [pcC EXCEPT ![k] = "rej_setSinkId"]
          /\ alerts' = alerts + 1
          /\ Commit(Cur)
          /\ UNCHANGED <<inputAnalyser, outputAnalyser, onVolumeChange,
                         nextStartTime, streamAcq, sess, oncloseFired, errSeen,
                         now, audio, capture, codec, nConn, nStops, nMsgs,
                         lastCall, stoppedDuring, limits>>

\* lines 187-191: setSinkId settled, fulfilled (ok) or rejected; a rejection
\* is caught and logged, and connect() goes on with line 194 either way.
ConnectSetSinkDone(k, ok) ==
  /\ pcC[k] = "setSinkId"
  /\ sinkWarned' = Warned(k, ok)
  /\ Analysers(k)

\* ConnectGumFail without the catch of lines 216-220: the rejection leaves
\* connect() without stop() being called.
ConnectGumFailNoStop(k) ==
  /\ pcC[k] = "getUserMedia"
  /\ Commit(Cur)
  /\ pcC' = [pcC EXCEPT ![k] = "rej_getUserMedia"]
  /\ alerts' = alerts + 1
  /\ UNCHANGED <<inputAnalyser, outputAnalyser, onVolumeChange, nextStartTime,
                 streamAcq, sess, oncloseFired, errSeen, now, audio, capture, codec, nConn,
                 nStops, nMsgs, lastCall, stoppedDuring, limits,
                 sinkWarned>>

\* lines 216-220: getUserMedia rejected.
ConnectGumFail(k) ==
  /\ pcC[k] = "getUserMedia"
  /\ Commit(StopSync(Cur))
  /\ pcC' = [pcC EXCEPT ![k] = "rej_getUserMedia"]
  /\ alerts' = alerts + 1
  /\ UNCHANGED <<inputAnalyser, outputAnalyser, onVolumeChange, nextStartTime,
                 streamAcq, sess, oncloseFired, errSeen, now, audio, capture, codec, nConn,
                 nStops, nMsgs, lastCall, stoppedDuring, limits,
                 sinkWarned>>

\* GumCheckFails without the safety check of lines 222-226.
GumCheckNever(s) == FALSE

\* lines 222-226: after getUserMedia, is the client still active?
GumCheckFails(s) == ~s.active \/ s.inputContext = 0

\* lines 206, 222-250: getUserMedia resolved; the safety check, then the
\* remote session is opened and connect() returns.
ConnectGumOk(k) ==
  /\ pcC[k] = "getUserMedia"
  /\ streamAcq' = [streamAcq EXCEPT ![k] = TRUE]
  /\ LET s == [Cur EXCEPT !.stream = k] IN
     IF GumCheckFails(s)
     THEN /\ Commit(StopSync(s))
          /\ UNCHANGED sess
     ELSE /\ Commit([s EXCEPT !.currentSession = k])
          /\ sess' = [sess EXCEPT ![k] = "pending"]
  /\ pcC' = [pcC EXCEPT ![k] = "resolved"]
  /\ UNCHANGED <<inputAnalyser, outputAnalyser, onVolumeChange, nextStartTime,
                 oncloseFired, errSeen, now, audio, capture, codec, nConn, nStops, nMsgs,
                 lastCall, stoppedDuring, alerts, limits,
                 sinkWarned>>

\* ---- stop() as an action (liveClient.ts 353-394) ------------------------
StopCall ==
  /\ nStops < MaxStops
  /\ nStops' = nStops + 1
  /\ Commit(StopSync(Cur))
  /\ lastCall' = "stop"
  /\ stoppedDuring' = [k \in Conns |-> stoppedDuring[k] \/ pcC[k] \in Suspended]
  /\ UNCHANGED <<inputAnalyser, outputAnalyser, onVolumeChange, nextStartTime,
                 streamAcq, sess, oncloseFired, errSeen, now, audio, capture, codec, pcC,
                 nConn, nMsgs, alerts, limits,
                 sinkWarned>>

\* lines 377-378: inputContext.close() resolved.
StopResumeIn ==
  /\ awaitIn > 0
  /\ Commit(StopOutput(Step([Cur EXCEPT !.awaitIn = @ - 1, !.inputContext = 0,
                                         !.held = 0],
                             "inputClosed")))
  /\ UNCHANGED <<inputAnalyser, outputAnalyser, onVolumeChange, nextStartTime,
                 streamAcq, sess, oncloseFired, errSeen, now, audio, capture, codec, pcC,
                 caller>>

\* lines 382-383: outputContext.close() resolved.
StopResumeOut ==
  /\ awaitOut > 0
  /\ Commit(StopSession(Step([Cur EXCEPT !.awaitOut = @ - 1, !.outputContext = 0,
                                          !.held = 0],
                              "outputClosed")))
  /\ UNCHANGED <<inputAnalyser, outputAnalyser, onVolumeChange, nextStartTime,
                 streamAcq, sess, oncloseFired, errSeen, now, audio, capture, codec, pcC,
                 caller>>


\* ---- the metering loop (liveClient.ts 321-349) --------------------------
\* One animation frame of loop k: update() returns when the client is not
\* active, and otherwise reports the levels and requests the next frame.
MeterTick(k) ==
  /\ k \in raf
  /\ IF active
     THEN /\ cleanupFrame' = k /\ raf' = raf
          /\ \E wi, wo \in Windows :
               reports' = Metered(VolumeCalls(inputAnalyser # 0 /\ onVolumeChange,
                                              outputAnalyser # 0 /\ onVolumeChange,
                                              wi, wo))
     ELSE /\ raf' = raf \ {k} /\ UNCHANGED cleanupFrame
          /\ reports' = Metered(<<>>)
  /\ UNCHANGED <<active, inputContext, outputContext, stream, workletNode,
                 sourceNode, currentSession, inputAnalyser, outputAnalyser,
                 onVolumeChange, nextStartTime, inClose, outClose, streamAcq,
                 trackStops, sess, closeWait, sessClose, oncloseFired, errSeen,
                 now, wired, audio, capture, codec, frames, caller>>

\* ---- the remote session's callbacks (liveClient.ts 235-248) -------------
\* startAudioStreaming (lines 252-276) at the onopen of session k: the source
\* and the worklet node, with a new processor, wired to the input context.
\* The nodes are followed in the runs that give them samples.
StartAudioStreaming(k) ==
  IF inputContext = 0 \/ stream = 0 \/ currentSession = 0
  THEN UNCHANGED <<sourceNode, workletNode, wired, recorder>>
  ELSE /\ sourceNode' = k /\ workletNode' = k
       /\ IF fedLimit > 0
          THEN /\ wired' = wired \cup {k}
               /\ recorder' = [recorder EXCEPT ![k] =
                                 RecorderProcessor(inputContext)]
          ELSE UNCHANGED <<wired, recorder>>

\* The sends attached to a promise run last first.
SendsLastFirst(k, q) ==
  [i \in 1..Len(q) |-> [to |-> k, chunk |-> q[Len(q) + 1 - i]]]

\* The sendRealtimeInput calls for chunks q on session k, in that order.
Sends(k, q) == [i \in 1..Len(q) |-> [to |-> k, chunk |-> q[i]]]

\* onopen (lines 236-239); the session promise is then fulfilled, and the
\* handlers attached to it meanwhile run in the order they were attached:
\* the sends of lines 265-267 and the close of stop() (lines 387-391).
SessionOpen(k) ==
  /\ sess[k] = "pending" /\ ~oncloseFired[k]
  /\ StartAudioStreaming(k)
  /\ sess' = [sess EXCEPT ![k] = "open"]
  /\ sessClose' = [sessClose EXCEPT ![k] = @ + closeWait[k]]
  /\ closeWait' = [closeWait EXCEPT ![k] = 0]
  /\ sent' = sent \o Sends(k, sendWait[k])
  /\ sendWait' = [sendWait EXCEPT ![k] = <<>>]
  /\ UNCHANGED <<active, inputContext, outputContext, stream, currentSession,
                 cleanupFrame, inputAnalyser, outputAnalyser, onVolumeChange,
                 nextStartTime, inClose, outClose, streamAcq, trackStops, raf,
                 oncloseFired, errSeen, now, audio, ports, handled, reports,
                 codec, frames, caller>>

\* The promise returned by ai.live.connect rejects: connect() stored it
\* without awaiting it (line 229), stop()'s handlers swallow it (line 391)
\* and the sends attached to it never run.
SessionReject(k) ==
  /\ sess[k] = "pending"
  /\ sess' = [sess EXCEPT ![k] = "failed"]
  /\ closeWait' = [closeWait EXCEPT ![k] = 0]
  /\ sendWait' = [sendWait EXCEPT ![k] = <<>>]
  /\ UNCHANGED <<fields, inClose, outClose, streamAcq, trackStops, raf,
                 sessClose, oncloseFired, errSeen, now, wired, audio, recorder,
                 ports, sent, handled, reports, codec, frames, caller>>

\* onclose (lines 241-244): stop() is called and not awaited.
SessionOnClose(k) ==
  /\ sess[k] # "none" /\ ~oncloseFired[k]
  /\ oncloseFired' = [oncloseFired EXCEPT ![k] = TRUE]
  /\ Commit(StopSync(Cur))
  /\ UNCHANGED <<inputAnalyser, outputAnalyser, onVolumeChange, nextStartTime,
                 streamAcq, sess, errSeen, now, audio, capture, codec, pcC, caller>>

\* onerror (lines 245-247): the error is logged.
SessionOnError(k) ==
  /\ sess[k] = "open" /\ ~oncloseFired[k] /\ ~errSeen[k]
  /\ errSeen' = [errSeen EXCEPT ![k] = TRUE]
  /\ UNCHANGED <<fields, inClose, outClose, streamAcq, trackStops, raf, sess,
                 closeWait, sessClose, oncloseFired, now, wired, audio, capture, reports, codec, frames, caller>>

\* ---- inbound audio (liveClient.ts 41-63, 94-102, 278-316) ---------------
\* An inbound message: the interrupted flag and the audio payload, if any.  A
\* payload is a string that is valid base64 or not, and that decodes to a
\* number of bytes (to none when it holds nothing but white space).
NoAudio == [audio |-> FALSE, ok |-> FALSE, bytes |-> 0]
Invalid == [audio |-> TRUE, ok |-> FALSE, bytes |-> 0]
Pcm(b) == [audio |-> TRUE, ok |-> TRUE, bytes |-> b]
Payloads == {NoAudio, Invalid} \cup {Pcm(b) : b \in 0..(2 * MaxLen)}
Messages == [interrupted : BOOLEAN, payload : Payloads]

\* handleMessage on an interruption (lines 282-284): the logic was removed.
OnInterruptedReset(nst, t) == t

OnInterrupted(nst, t) == nst

\* handleMessage (lines 278-291) for message m of session k: a payload is
\* posted to the decoder worker.  sn notes the connect() it was received
\* under.
SessionMessage(k, m) ==
  /\ sess[k] = "open" /\ ~oncloseFired[k]
  /\ nMsgs < msgLimit
  /\ nMsgs' = nMsgs + 1
  /\ msgs' = Append(msgs, m)
  /\ IF outputContext = 0
     THEN /\ fate' = Append(fate, "ignored")
          /\ UNCHANGED <<nextStartTime, decodeQ>>
     ELSE /\ nextStartTime' = IF m.interrupted
                              THEN OnInterrupted(nextStartTime, now)
                              ELSE nextStartTime
          /\ IF m.payload.audio
             THEN /\ decodeQ' = Append(decodeQ, [id |-> nMsgs + 1, sn |-> nConn,
                                                 ok |-> m.payload.ok,
                                                 bytes |-> m.payload.bytes])
                  /\ fate' = Append(fate, "posted")
             ELSE /\ fate' = Append(fate, "ignored")
                  /\ UNCHANGED decodeQ
  /\ UNCHANGED <<active, inputContext, outputContext, stream, workletNode,
                 sourceNode, currentSession, cleanupFrame, inputAnalyser,
                 outputAnalyser, onVolumeChange, inClose, outClose, streamAcq,
                 trackStops, raf, sess, closeWait, sessClose, oncloseFired,
                 errSeen, now, decodedQ, starts, drops, wired, capture, reports,
                 codec, frames, nConn, nStops,
                 lastCall, stoppedDuring, alerts, limits,
                 sinkWarned>>

\* The worker's decoding with a byte count that is not a whole number of
\* samples cut down to whole samples.
DecodeTruncating(p) ==
  IF ~p.ok THEN -1 ELSE p.bytes \div 2

\* The worker's decoding (lines 46-58), as the number of samples it yields;
\* -1 when it throws: atob on invalid base64 (line 46), new Int16Array on a
\* buffer of odd length (line 54).
Decode(p) ==
  IF ~p.ok THEN -1
  ELSE IF p.bytes % 2 # 0 THEN -1
  ELSE p.bytes \div 2

\* The worker takes its messages in the order they were posted.
Newest(q) == Len(q)

Oldest(q) == 1

Without(q, i) == SubSeq(q, 1, i - 1) \o SubSeq(q, i + 1, Len(q))

\* The worker's onmessage (lines 42-62): the next payload is decoded and the
\* samples are posted back; an exception it throws is caught by nothing.
WorkerDecode ==
  /\ decodeQ # <<>>
  /\ LET i == Oldest(decodeQ)
         p == decodeQ[i]
         n == Decode(p)
     IN /\ decodeQ' = Without(decodeQ, i)
        /\ IF n < 0
           THEN /\ fate' = [fate EXCEPT ![p.id] = "uncaught"]
                /\ UNCHANGED decodedQ
           ELSE /\ fate' = [fate EXCEPT ![p.id] = "decoded"]
                /\ decodedQ' = Append(decodedQ, [id |-> p.id, sn |-> p.sn,
                                                 len |-> n])
  /\ UNCHANGED <<fields, inClose, outClose, streamAcq, trackStops, raf, sess,
                 closeWait, sessClose, oncloseFired, errSeen, now, msgs, starts,
                 drops, wired, capture, reports, codec, frames, caller>>

\* line 302 as written in the earlier revision (lines 628-630).
StartTimeLookahead(nst, t) == IF nst < t THEN t + Epsilon ELSE nst

\* line 302 with the clock alone, and with the timeline alone.
StartTimeNow(nst, t) == t

StartTimeStale(nst, t) == nst

\* line 302: the time the buffer is started at.
StartTime(nst, t) == Max(nst, t)

\* line 310 without the addition.
AfterBufferForgotten(at, d) == at

\* line 310: the timeline after a buffer of duration d started at at.
AfterBuffer(at, d) == at + d

\* line 297 throwing with line 302 moved before it: the timeline is
\* re-synchronised before createBuffer refuses the buffer.
AfterRefusalSynced(nst, t) == Max(nst, t)

\* lines 297-302: createBuffer throws before line 302 is reached, so the
\* timeline keeps its value.
AfterRefusal(nst, t) == nst

\* queueAudio (lines 294-316) for the samples b of message b.id.  createBuffer
\* throws on a length of 0 (line 297); connecting the source to an analyser of
\* another context throws after line 302 has run (line 306).
QueueAudio(b) ==
  IF outputContext = 0 \/ outputAnalyser = 0
  THEN /\ fate' = [fate EXCEPT ![b.id] = "skipped"]
       /\ UNCHANGED <<nextStartTime, starts, drops>>
  ELSE IF b.len = 0
  THEN /\ fate' = [fate EXCEPT ![b.id] = "uncaught"]
       /\ nextStartTime' = AfterRefusal(nextStartTime, now)
       /\ drops' = Append(drops, [id |-> b.id, nst |-> nextStartTime,
                                  now |-> now])
       /\ UNCHANGED starts
  ELSE LET at == StartTime(nextStartTime, now) IN
       IF outputAnalyser # outputContext
       THEN /\ fate' = [fate EXCEPT ![b.id] = "uncaught"]
            /\ nextStartTime' = at
            /\ UNCHANGED <<starts, drops>>
       ELSE /\ fate' = [fate EXCEPT ![b.id] = "scheduled"]
            /\ nextStartTime' = AfterBuffer(at, b.len)
            /\ starts' = Append(starts,
                           [id |-> b.id, sn |-> b.sn, ctx |-> outputContext,
                            at |-> at, now |-> now, dur |-> b.len,
                            nst |-> nextStartTime,
                            next |-> AfterBuffer(at, b.len),
                            seen |-> nMsgs,
                            behind |-> Len(decodeQ) + Len(decodedQ) - 1])
            /\ UNCHANGED drops

\* The worker's answer arrives (lines 98-101): its samples are queued.
DecodeDone ==
  /\ decodedQ # <<>>
  /\ QueueAudio(Head(decodedQ))
  /\ decodedQ' = Tail(decodedQ)
  /\ UNCHANGED <<active, inputContext, outputContext, stream, workletNode,
                 sourceNode, currentSession, cleanupFrame, inputAnalyser,
                 outputAnalyser, onVolumeChange, inClose, outClose, streamAcq,
                 trackStops, raf, sess, closeWait, sessClose, oncloseFired,
                 errSeen, now, decodeQ, msgs, wired, capture, reports, codec,
                 frames, caller>>

\* The output device's clock advances while its context is running.
Advance ==
  /\ outputContext # 0 /\ outClose[outputContext] = 0
  /\ now < timeLimit
  /\ now' = now + 1
  /\ UNCHANGED <<fields, inClose, outClose, streamAcq, trackStops, raf, sess,
                 closeWait, sessClose, oncloseFired, errSeen, wired, audio, capture, reports, codec, frames,
                 caller>>

\* ---- capture (liveClient.ts 13-35, 259-268) -----------------------------
\* process() of node k's processor (lines 21-34) with a batch of n samples:
\* the node is given input while its source is connected and its context
\* has not been closed, and the audio thread goes on rendering until the
\* close() of the context has taken effect.  Each frame posted is a copy of
\* the accumulator; act notes whether the client was active when it was
\* posted.
Rendering(k) ==
  LET c == recorder[k].ctx IN
  IF inClose[c] = 0 THEN k \in wired ELSE inputContext = c /\ awaitIn > 0

Process(k, n) ==
  /\ recorder[k].made
  /\ Rendering(k)
  /\ FedUpTo(MaxConnects + 1) + n <= fedLimit
  /\ LET r == recorder[k]
         channel == [i \in 1..n |-> Sample(k, r.fed + i)]
         p == ProcessLoop([buffer |-> r.buffer, index |-> r.index, out |-> <<>>],
                          channel, 1)
     IN /\ recorder' = [recorder EXCEPT ![k] =
                          [r EXCEPT !.buffer = p.buffer, !.index = p.index,
                                    !.fed = @ + n, !.posted = @ + Len(p.out),
                                    !.split = @ \/ (p.out # <<>> /\ p.index > 0)]]
        /\ ports' = [ports EXCEPT ![k] =
                       @ \o [i \in 1..Len(p.out) |->
                               [src |-> k, seq |-> r.posted + i,
                                samples |-> p.out[i], act |-> active]]]
  /\ UNCHANGED <<fields, inClose, outClose, streamAcq, trackStops, raf, sess,
                 closeWait, sessClose, oncloseFired, errSeen, now, wired, audio,
                 sendWait, sent, handled, reports, codec, frames, caller>>

\* The handler without the guard of line 260.
FrameDroppedNever(a) == FALSE

\* line 260: the frame is dropped when the client is not active.
FrameDropped(a) == ~a

\* The chunk pcmToGeminiBlob makes of frame f (line 263), as the frame it
\* holds.
Chunk(f) == [src |-> f.src, seq |-> f.seq, samples |-> f.samples]

\* workletNode.port.onmessage of node k (lines 259-268) for the next frame
\* of its port: the frame is encoded, and the send is attached to the promise
\* currentSession refers to; it runs at once when that promise is fulfilled.
\* handled notes the flag, the session and its promise as the handler found
\* them, and whether the frame was encoded.
WorkletMessage(k) ==
  /\ ports[k] # <<>>
  /\ LET f == Head(ports[k])
         h == [frame |-> f, on |-> active, cur |-> currentSession,
               state |-> IF currentSession = 0 THEN "none"
                         ELSE sess[currentSession],
               encoded |-> ~FrameDropped(active)]
     IN /\ ports' = [ports EXCEPT ![k] = Tail(@)]
        /\ handled' = Append(handled, h)
        /\ IF FrameDropped(active) \/ currentSession = 0
           THEN UNCHANGED <<sendWait, sent>>
           ELSE IF sess[currentSession] = "open"
           THEN /\ sent' = Append(sent, [to |-> currentSession,
                                         chunk |-> Chunk(f)])
                /\ UNCHANGED sendWait
           ELSE IF sess[currentSession] = "pending"
           THEN /\ sendWait' = [sendWait EXCEPT ![currentSession] =
                                  Append(@, Chunk(f))]
                /\ UNCHANGED sent
           ELSE UNCHANGED <<sendWait, sent>>
  /\ UNCHANGED <<fields, inClose, outClose, streamAcq, trackStops, raf, sess,
                 closeWait, sessClose, oncloseFired, errSeen, now, wired, audio,
                 recorder, reports, codec, frames, caller>>

\* ---- the sample codec at work --------------------------------------------
\* pcmToGeminiBlob (line 263) for the frame at hand.
Encode(up) ==
  /\ codec.op = "frame"
  /\ codec' = [codec EXCEPT !.op = "chunk",
                            !.wire = [i \in DOMAIN codec.input |->
                                        sample16(codec.input[i], up)]]
  /\ UNCHANGED <<fields, inClose, outClose, streamAcq, trackStops, raf, sess,
                 closeWait, sessClose, oncloseFired, errSeen, now, wired, audio,
                 capture, reports, frames, caller>>

\* The decoder worker's onmessage (lines 42-62), for the payload at hand or
\* for the bytes of the chunk the encoder made.
DecodePayload ==
  /\ codec.op \in {"payload", "chunk"}
  /\ codec' = IF codec.op = "payload"
              THEN [codec EXCEPT !.op = "decode", !.output = float32(codec.input)]
              ELSE [codec EXCEPT !.op = "roundtrip",
                                 !.output = float32(Encoded(codec.wire, 1))]
  /\ UNCHANGED <<fields, inClose, outClose, streamAcq, trackStops, raf, sess,
                 closeWait, sessClose, oncloseFired, errSeen, now, wired, audio,
                 capture, reports, frames, caller>>

\* ---- the caller (part_001 88-136) ---------------------------------------
\* App.startSession calls connect() when no session is active and no call is
\* being awaited; a start that failed leaves it ready to start again.
AppIdle ==
  /\ \A k \in Conns : pcC[k] \notin Suspended
  /\ awaitIn = 0 /\ awaitOut = 0
  /\ IF lastCall = "connect" THEN pcC[nConn] \in Rejected ELSE TRUE

startSession == AppIdle /\ ConnectCall

\* App.stopSession calls stop() when its connect() has returned.
AppActive == IF lastCall = "connect" THEN pcC[nConn] = "resolved" ELSE FALSE

stopSession == AppActive /\ StopCall

\* ---- the specifications -------------------------------------------------
\* The lifecycle: connect(), stop(), the metering loop, the session's callbacks.
NextLife ==
  \/ ConnectCall
  \/ \E k \in Conns : ConnectAddModuleFail(k)
  \/ \E k \in Conns, speaker \in BOOLEAN : ConnectAddModuleOk(k, speaker)
  \/ \E k \in Conns, ok \in BOOLEAN : ConnectSetSinkDone(k, ok)
  \/ \E k \in Conns : ConnectGumFail(k)
  \/ \E k \in Conns : ConnectGumOk(k)
  \/ StopCall
  \/ StopResumeIn
  \/ StopResumeOut
  \/ \E k \in Conns : MeterTick(k)
  \/ \E k \in Conns : SessionOpen(k)
  \/ \E k \in Conns : SessionReject(k)
  \/ \E k \in Conns : SessionOnClose(k)
  \/ \E k \in Conns : SessionOnError(k)

\* The lifecycle together with inbound audio and the output clock.
Next ==
  \/ NextLife
  \/ \E k \in Conns, d \in 1..MaxDur :
       SessionMessage(k, [interrupted |-> FALSE, payload |-> Pcm(2 * d)])
  \/ WorkerDecode
  \/ DecodeDone
  \/ Advance

\* One session at a time.
Spec == Init /\ [][NextLife]_vars

\* A second connect() may overlap or follow the first; audio is played.
SpecFull == InitFull /\ [][Next]_vars


\* Inbound audio in a streaming session: messages, the decoder worker and
\* its answers, the output clock.
NextPlay ==
  \/ \E m \in Messages : SessionMessage(1, m)
  \/ WorkerDecode
  \/ DecodeDone
  \/ Advance

SpecPlay == InitPlay /\ [][NextPlay]_vars

\* The client as App drives it: one session after another.
NextApp ==
  \/ startSession
  \/ \E k \in Conns : ConnectAddModuleFail(k)
  \/ \E k \in Conns, speaker \in BOOLEAN : ConnectAddModuleOk(k, speaker)
  \/ \E k \in Conns, ok \in BOOLEAN : ConnectSetSinkDone(k, ok)
  \/ \E k \in Conns : ConnectGumFail(k)
  \/ \E k \in Conns : ConnectGumOk(k)
  \/ stopSession
  \/ StopResumeIn
  \/ StopResumeOut
  \/ \E k \in Conns : MeterTick(k)
  \/ \E k \in Conns : SessionOpen(k)
  \/ \E k \in Conns : SessionReject(k)
  \/ \E k \in Conns : SessionOnClose(k)
  \/ \E k \in Conns : SessionOnError(k)

InitApp ==
  /\ InitClient
  /\ connLimit = 2 /\ msgLimit = 0 /\ timeLimit = 0
  /\ fedLimit = 0 /\ observe = {}

SpecApp == InitApp /\ [][NextApp]_vars

\* Two sessions one after the other, with the audio the sessions send and
\* the decoder worker, which outlives them.
InitReplay ==
  /\ InitClient
  /\ connLimit = 2 /\ msgLimit = MaxBufs /\ timeLimit = 0
  /\ fedLimit = 0 /\ observe = {}

NextReplay ==
  \/ NextApp
  \/ \E k \in Conns, d \in 1..MaxDur :
       SessionMessage(k, [interrupted |-> FALSE, payload |-> Pcm(2 * d)])
  \/ WorkerDecode
  \/ DecodeDone

SpecReplay == InitReplay /\ [][NextReplay]_vars

\* Two sessions one after the other with everything the client does in
\* them: setup and teardown, metering, a frame captured and sent, a message
\* played.
InitWhole ==
  /\ InitClient
  /\ connLimit = 2 /\ msgLimit = 1 /\ timeLimit = 0
  /\ fedLimit = FrameLen /\ observe = {}

NextWhole ==
  \/ NextApp
  \/ \E k \in Conns, i \in BOOLEAN :
       SessionMessage(k, [interrupted |-> i, payload |-> Pcm(2)])
  \/ WorkerDecode
  \/ DecodeDone
  \/ \E k \in Conns : Process(k, FrameLen)
  \/ \E k \in Conns : WorkletMessage(k)

SpecWhole == InitWhole /\ [][NextWhole]_vars

\* Two sessions one after the other, with their capture: the processors are
\* given batches of samples and the frames they post are handled.
InitCapture ==
  /\ InitClient
  /\ connLimit = 2 /\ msgLimit = 0 /\ timeLimit = 0
  /\ fedLimit = MaxFed /\ observe = {}

NextCapture ==
  \/ NextApp
  \/ \E k \in Conns, n \in 1..MaxBatch : Process(k, n)
  \/ \E k \in Conns : WorkletMessage(k)

SpecCapture == InitCapture /\ [][NextCapture]_vars

\* One session with the windows the analysers give to the metering loop.
InitMeter ==
  /\ Streaming
  /\ connLimit = 1 /\ msgLimit = 0 /\ timeLimit = 0
  /\ fedLimit = 0 /\ observe = {"meter"}

NextMeter ==
  \/ \E k \in Conns : MeterTick(k)
  \/ StopCall
  \/ StopResumeIn
  \/ StopResumeOut
  \/ \E k \in Conns : SessionOnClose(k)

SpecMeter == InitMeter /\ [][NextMeter]_vars

\* connect() and stop() called in any order, with the calls the metering
\* loops make.
InitTicks ==
  /\ InitClient
  /\ connLimit = 2 /\ msgLimit = 0 /\ timeLimit = 0
  /\ fedLimit = 0 /\ observe = {"calls"}

SpecTicks == InitTicks /\ [][NextLife]_vars

\* The lifecycle with the outcome of setSinkId observed.
InitSink ==
  /\ InitClient
  /\ connLimit = 2 /\ msgLimit = 0 /\ timeLimit = 0
  /\ fedLimit = 0 /\ observe = {"sink"}

SpecSink == InitSink /\ [][NextLife]_vars

\* The sample codec on its own, given a payload to decode or a frame to
\* encode and decode again.
InitCodec ==
  /\ InitIdle
  /\ codec \in {[op |-> "payload", input |-> bytes, wire |-> <<>>,
                  output |-> <<>>] : bytes \in PayloadBytes}
             \cup {[op |-> "frame", input |-> frame, wire |-> <<>>,
                     output |-> <<>>] : frame \in Inputs}
  /\ connLimit = 0 /\ msgLimit = 0 /\ timeLimit = 0
  /\ fedLimit = 0 /\ observe = {}

NextCodec ==
  \/ \E up \in BOOLEAN : Encode(up)
  \/ DecodePayload

SpecCodec == InitCodec /\ [][NextCodec]_vars

\* Every promise the client awaits is settled by the platform, so a suspended
\* connect() or stop() is eventually resumed.
Resume ==
  \/ StopResumeIn
  \/ StopResumeOut
  \/ \E k \in Conns : ConnectAddModuleFail(k)
  \/ \E k \in Conns, speaker \in BOOLEAN : ConnectAddModuleOk(k, speaker)
  \/ \E k \in Conns, ok \in BOOLEAN : ConnectSetSinkDone(k, ok)
  \/ \E k \in Conns : ConnectGumFail(k)
  \/ \E k \in Conns : ConnectGumOk(k)

SpecFair == Spec /\ WF_vars(Resume)

\* One session, observed.
SpecStop == InitStop /\ [][NextLife]_vars

\* ---- vocabulary of the properties ---------------------------------------
\* No connect() and no stop() is suspended at an await.
Quiescent ==
  /\ \A k \in Conns : pcC[k] \notin Suspended
  /\ awaitIn = 0 /\ awaitOut = 0

\* The caller's last call was stop() (or it made none) and nothing is pending.
Stopped == lastCall # "connect" /\ Quiescent

\* Resources acquired and not yet released.
LiveInputs == {k \in Conns : pcC[k] # "idle" /\ inClose[k] = 0}
LiveOutputs == {k \in Conns : pcC[k] # "idle" /\ outClose[k] = 0}
LiveStreams == {k \in Conns : streamAcq[k] /\ trackStops[k] = 0}
LiveSessions ==
  {k \in Conns : sess[k] \in {"pending", "open"} /\ ~oncloseFired[k]
                 /\ sessClose[k] = 0 /\ closeWait[k] = 0}

\* ---- C1 -----------------------------------------------------------------
\* C1: however stop() calls interleave within one session, each resource is
\* released at most once (tracks stopped once, close() called once on each
\* audio context, close() requested once on the session) and no stop() rejects.
C1_ReleasedOnce ==
  (nConn <= 1 /\ \A k \in Conns : pcC[k] \notin Rejected) =>
    /\ \A k \in Conns : /\ trackStops[k] <= 1
                        /\ inClose[k] <= 1
                        /\ outClose[k] <= 1
                        /\ sessClose[k] <= 1
    /\ stopRejects = 0

\* ---- C2 -----------------------------------------------------------------
\* What C2 asks of connect k once stop() was called during one of its awaits
\* and no later connect() was issued: no session is opened by it.
C2_StoppedInFlight(k) == k = nConn /\ stoppedDuring[k]

C2_NoSession ==
  \A k \in Conns : C2_StoppedInFlight(k) => sess[k] = "none"

\* Nothing is suspended and the client holds no stream, no audio context and
\* no session; the stream connect k was given is released, and so are the
\* contexts of a connect k that was the first call made on the client.
C2_HoldsNothing(k) ==
  /\ Quiescent
  /\ stream = 0 /\ inputContext = 0 /\ outputContext = 0 /\ currentSession = 0
  /\ streamAcq[k] => trackStops[k] >= 1
  /\ k = 1 => (inClose[k] >= 1 /\ outClose[k] >= 1)

\* C2: if stop() is called while connect() is suspended at an await and no
\* later connect() is issued, connect() opens no remote session, and the
\* client eventually holds no stream, no open audio context and no session.
C2_StopDuringConnect ==
  /\ []C2_NoSession
  /\ (\E k \in Conns : C2_StoppedInFlight(k))
       ~> (\A k \in Conns : C2_StoppedInFlight(k) => C2_HoldsNothing(k))

\* C2's case: stop() arrived during await getUserMedia; the stream that was
\* then delivered has been released and connect() has returned.
C2_Witness ==
  \E k \in Conns : /\ C2_StoppedInFlight(k)
                   /\ pcC[k] = "resolved" /\ streamAcq[k]
                   /\ C2_HoldsNothing(k)


\* ---- C3 -----------------------------------------------------------------
\* The fields as the constructor leaves them (liveClient.ts 66-87), for the
\* fields C3 lists.
C3_FieldsInitial ==
  /\ active = FALSE /\ stream = 0 /\ inputContext = 0 /\ outputContext = 0
  /\ workletNode = 0 /\ sourceNode = 0 /\ currentSession = 0 /\ cleanupFrame = 0
  /\ nextStartTime = 0

\* C3: after a stop() has completed, every field that influences a later
\* session has its initial value again (one session, no stop() rejected).
C3_StoppedIsIdle ==
  (nConn <= 1 /\ Stopped /\ stopRejects = 0) => C3_FieldsInitial

\* ---- C4 -----------------------------------------------------------------
\* C4: after any sequence of connect() and stop() calls the client has at
\* most one capture stream, one input and one output audio context, one
\* metering loop and one remote session that were acquired and not released.
C4_AtMostOneOfEach ==
  /\ Cardinality(LiveStreams) <= 1
  /\ Cardinality(LiveInputs) <= 1
  /\ Cardinality(LiveOutputs) <= 1
  /\ Cardinality(raf) <= 1
  /\ Cardinality(LiveSessions) <= 1

\* ---- C5 -----------------------------------------------------------------
\* C5: when connect() has rejected because addModule or getUserMedia failed,
\* metering is stopped, both audio contexts are closed and no stream is held.
C5_TornDownBeforeRejection ==
  \A k \in Conns :
    pcC[k] \in {"rej_addModule", "rej_getUserMedia"} =>
      /\ raf = {} /\ cleanupFrame = 0
      /\ inClose[k] >= 1 /\ outClose[k] >= 1
      /\ stream = 0

\* ---- C6 -----------------------------------------------------------------
\* C6: when the promise returned by ai.live.connect has rejected, the
\* connect() that opened it has failed towards its caller, and the stream,
\* the audio contexts and the metering loop it acquired are torn down.
C6_SessionFailureAbortsStart ==
  \A k \in Conns :
    sess[k] = "failed" =>
      /\ pcC[k] \in Rejected /\ alerts >= 1
      /\ ~active /\ k \notin raf
      /\ trackStops[k] >= 1 /\ inClose[k] >= 1 /\ outClose[k] >= 1

\* ---- C7 -----------------------------------------------------------------
\* C7: when getUserMedia has failed, connect() has rejected with that error,
\* it has opened no remote session and acquired no stream, active is false
\* (as long as no later connect() is issued), and the caller has been told of
\* one failed start for each connect() that rejected.
C7_GetUserMediaFailure ==
  \A k \in Conns :
    pcC[k] = "rej_getUserMedia" =>
      /\ sess[k] = "none" /\ ~streamAcq[k]
      /\ nConn = k => ~active
      /\ alerts = Cardinality({j \in Conns : pcC[j] \in Rejected})

\* C7's case: a connect() has rejected because getUserMedia failed.
C7_Witness ==
  \E k \in Conns : pcC[k] = "rej_getUserMedia" /\ alerts = 1

\* ---- C8 -----------------------------------------------------------------
\* C8: once the session has reported an error mid-stream, the client is
\* stopping: active is false.
C8_ErrorStops ==
  \A k \in Conns : errSeen[k] => ~active

\* ---- C9 -----------------------------------------------------------------
\* C9: with one stop() by the caller and the session's close event, whichever
\* comes first and however they overlap, no resource of the session is
\* released twice.
C9_CloseEventNoSecondRelease ==
  \A k \in Conns :
    (nConn <= 1 /\ nStops <= 1 /\ sess[k] # "none") =>
      /\ trackStops[k] <= 1 /\ inClose[k] <= 1 /\ outClose[k] <= 1
      /\ sessClose[k] <= 1 /\ stopRejects = 0

\* ---- C10 ----------------------------------------------------------------
\* C10: a stop() called on a client that was never started, or whose last
\* stop() has completed, changes no field, releases nothing and does not reject.
C10_StopOnStoppedIsNoOp ==
  [][(nStops' = nStops + 1 /\ Stopped) =>
       /\ UNCHANGED <<fields, inClose, outClose, trackStops, raf, sess,
                      closeWait, sessClose, awaitIn, awaitOut, stopRejects>>
       /\ active' = FALSE]_vars

\* C10's case: one session with two stop() calls in which every resource was
\* released once and no stop() rejected, so one of the two was called on a
\* client that was not started or already stopped.
C10_Witness ==
  /\ nConn = 1 /\ nStops = 2 /\ Stopped /\ stopRejects = 0
  /\ sess[1] = "open" /\ sessClose[1] = 1
  /\ inClose[1] = 1 /\ outClose[1] = 1 /\ trackStops[1] = 1

\* ---- C11 ----------------------------------------------------------------
\* C11: close() is requested at most once on each remote session, and exactly
\* once on a session that was opened (or is being opened) when the caller's
\* last stop() has run to its end.
C11_SessionClosedOnce ==
  \A k \in Conns :
    /\ sessClose[k] + closeWait[k] <= 1
    /\ (Stopped /\ sess[k] \in {"pending", "open"})
         => sessClose[k] + closeWait[k] = 1

\* ---- C12 ----------------------------------------------------------------
\* The place of each step in the order C12 gives (the code's order of the two
\* nodes, and of the two contexts with their awaits, refines it).
C12_Rank(e) ==
  CASE e = "call" -> 0
    [] e = "cancelFrame" -> 1
    [] e = "disconnectWorklet" -> 2
    [] e = "disconnectSource" -> 3
    [] e = "stopTracks" -> 4
    [] e = "closeInput" -> 5
    [] e = "inputClosed" -> 6
    [] e = "closeOutput" -> 7
    [] e = "outputClosed" -> 8
    [] e = "closeSession" -> 9

\* The steps activation f of stop() has taken so far.
C12_StepsOf(f) == SelectSeq(teardown, LAMBDA e : e[1] = f)

C12_Has(q, e) == \E i \in DOMAIN q : q[i][2] = e

\* C12: within one stop() the steps are taken in the order metering, nodes,
\* tracks, input and output context, session, none a second time, and the
\* close of the session is requested only when every close() this stop()
\* called on a context has completed.
C12_TeardownInOrder ==
  \A f \in 1..Calls(teardown) :
    LET q == C12_StepsOf(f) IN
    /\ \A i, j \in DOMAIN q : i < j => C12_Rank(q[i][2]) < C12_Rank(q[j][2])
    /\ C12_Has(q, "closeSession") =>
         /\ C12_Has(q, "closeInput") => C12_Has(q, "inputClosed")
         /\ C12_Has(q, "closeOutput") => C12_Has(q, "outputClosed")

\* C12's case: a stop() of a streaming session that took every step.
C12_Witness ==
  \E f \in 1..Calls(teardown) :
    /\ Len(C12_StepsOf(f)) = 10
    /\ C12_Has(C12_StepsOf(f), "closeSession")

\* ---- C13 ----------------------------------------------------------------
\* C13: every buffer queueAudio starts is started at a time that is not
\* before the output clock read in that call.
C13_NeverInThePast ==
  \A i \in DOMAIN starts : starts[i].at >= starts[i].now

\* C13's case: one buffer arrived after the timeline had run out, another
\* while audio was still scheduled ahead of the clock.
C13_Witness ==
  \E i, j \in DOMAIN starts :
    /\ starts[i].nst < starts[i].now
    /\ starts[j].nst > starts[j].now

\* ---- C14 ----------------------------------------------------------------
\* The durations of the first k buffers started.
RECURSIVE C14_Sum(_)
C14_Sum(k) == IF k = 0 THEN 0 ELSE starts[k].dur + C14_Sum(k - 1)

\* Buffer j arrived before the audio of buffer j - 1 could run out.
C14_InTime(j) == starts[j].now - starts[j - 1].now < starts[j - 1].dur

\* C14: when every buffer up to the k-th arrived within the duration of the
\* one before it, the k-th is started at the start of the first plus the
\* durations of those before it (here also when an interruption intervenes).
C14_Gapless ==
  \A k \in DOMAIN starts :
    (\A j \in 2..k : C14_InTime(j))
      => starts[k].at = starts[1].at + C14_Sum(k - 1)

\* C14's case: a second buffer that arrived later than the first, but in time.
C14_Witness ==
  /\ Len(starts) >= 2
  /\ C14_InTime(2) /\ starts[2].now > starts[1].now
  /\ starts[2].at = starts[1].at + starts[1].dur

C16_Handled ==
  /\ Len(msgs') = Len(msgs) + 1
  /\ msgs'[Len(msgs')].interrupted

C17_ArrivalOrder ==
  \A i, j \in DOMAIN starts :
    i < j => (starts[i].id < starts[j].id /\ starts[i].at < starts[j].at)

\* C17's case: a buffer was started while a later payload was in flight, and
\* that one was started after it.
C17_Witness ==
  /\ Len(starts) >= 2
  /\ starts[1].behind >= 1

\* ---- C18 ----------------------------------------------------------------
\* A payload that is invalid base64 or not a whole number of 16-bit samples.
C18_Malformed(p) == p.audio /\ (~p.ok \/ p.bytes % 2 # 0)

C18_WellFormedOnly(q) == SelectSeq(q, LAMBDA p : p.ok /\ p.bytes % 2 = 0)

\* The step is the arrival or the decoding of a malformed payload.
C18_BadStep ==
  \E i \in DOMAIN fate' :
    /\ C18_Malformed(msgs'[i].payload)
    /\ (i \notin DOMAIN fate \/ fate'[i] # fate[i])

\* C18: no buffer is started for a malformed payload, and its arrival and its
\* decoding change nothing that the scheduling of the other payloads reads:
\* the timeline, the buffers started, the results and the well-formed payloads
\* waiting, the flag, the contexts and the session.
C18_MalformedDropped ==
  /\ [](\A i \in DOMAIN starts : ~C18_Malformed(msgs[starts[i].id].payload))
  /\ [][C18_BadStep =>
          /\ UNCHANGED <<nextStartTime, starts, decodedQ, active, sess,
                         outputContext, outputAnalyser, currentSession>>
          /\ C18_WellFormedOnly(decodeQ') = C18_WellFormedOnly(decodeQ)]_vars

\* C18's case: a payload of odd length was dropped by the decoder and a
\* payload that arrived after it was started.
C18_Witness ==
  \E i, j \in DOMAIN fate :
    /\ i < j
    /\ msgs[i].payload.ok /\ msgs[i].payload.bytes % 2 = 1
    /\ fate[i] = "uncaught"
    /\ fate[j] = "scheduled"

\* ---- C19 ----------------------------------------------------------------
\* C19: every payload whose decoding failed has been reported as a warning
\* and nothing else (no exception is left uncaught).
C19_DecodeFailureReported ==
  \A i \in DOMAIN fate :
    (C18_Malformed(msgs[i].payload) /\ fate[i] \notin {"posted", "ignored"})
      => fate[i] = "reported"

\* ---- C20 ----------------------------------------------------------------
\* C20: nextStartTime never decreases from one state to the next (in this
\* revision no step is exempt: an interruption does not touch it, and the
\* re-sync after a gap moves it forward).
C20_TimelineMonotone == [][nextStartTime' >= nextStartTime]_vars

\* C20's case: an interruption was handled while audio was scheduled ahead of
\* the clock, and a later buffer re-synchronised the timeline after a gap.
C20_Witness ==
  /\ \E m \in DOMAIN msgs : msgs[m].interrupted
  /\ \E i \in DOMAIN starts : i > 1 /\ starts[i].nst < starts[i].now
  /\ nextStartTime > 0

\* ---- C21 ----------------------------------------------------------------
\* The step is a queueAudio call with a buffer of no samples.
C21_ZeroLengthCall ==
  /\ decodedQ # <<>> /\ decodedQ' = Tail(decodedQ)
  /\ Head(decodedQ).len = 0

\* C21: a queueAudio call with a zero-length buffer starts no source and
\* leaves nextStartTime as it was, also when nextStartTime < now; and no
\* source that is started has a duration of 0.
C21_ZeroLengthDropped ==
  /\ [][C21_ZeroLengthCall
          => (starts' = starts /\ nextStartTime' = nextStartTime)]_vars
  /\ [](\A i \in DOMAIN starts : starts[i].dur > 0)

\* C21's case: a zero-length buffer was refused after the audio started
\* before it had run out (0 < nextStartTime < now in that call).
C21_Witness ==
  /\ starts # <<>>
  /\ \E i \in DOMAIN drops :
       /\ msgs[drops[i].id].payload = Pcm(0)
       /\ 0 < drops[i].nst /\ drops[i].nst < drops[i].now
       /\ nextStartTime = drops[i].nst

\* ---- C22 ----------------------------------------------------------------
\* Chunks a and b come from one capture node, a from the earlier frame.
C22_Earlier(a, b) == a.src = b.src /\ a.seq < b.seq

C22_Later(a, b) == a.src = b.src /\ a.seq > b.seq

\* C22: the frames of a capture node are encoded in the order they were
\* posted, and the sends made on one session carry them in that order, also
\* when the sends had to wait for the session's promise.
C22_EmissionOrder ==
  /\ \A i, j \in DOMAIN handled :
       i < j => ~C22_Later(handled[i].frame, handled[j].frame)
  /\ \A i, j \in DOMAIN sent :
       (i < j /\ sent[i].to = sent[j].to) => ~C22_Later(sent[i].chunk, sent[j].chunk)
  /\ \A k \in Conns : \A i, j \in DOMAIN sendWait[k] :
       i < j => ~C22_Later(sendWait[k][i], sendWait[k][j])

\* C22's case: two frames of one node were handled while the promise of the
\* session was pending, and both were sent on it once it was fulfilled.
C22_Witness ==
  \E i, j \in DOMAIN sent : \E g, h \in DOMAIN handled :
    /\ i < j /\ sent[i].to = sent[j].to
    /\ C22_Earlier(sent[i].chunk, sent[j].chunk)
    /\ handled[g].state = "pending" /\ handled[h].state = "pending"
    /\ Chunk(handled[g].frame) = sent[i].chunk
    /\ Chunk(handled[h].frame) = sent[j].chunk

\* ---- C23 ----------------------------------------------------------------
\* The frames node k has posted so far, in order: those handled and those
\* still in its port.
C23_Emitted(k) ==
  LET q == SelectSeq(handled, LAMBDA h : h.frame.src = k) IN
  [i \in 1..Len(q) |-> q[i].frame] \o ports[k]

\* C23: whatever batches a processor was given, T samples in all, it has
\* posted T \div FrameLen frames, each of FrameLen samples, and the frames one
\* after the other are the first FrameLen * (T \div FrameLen) samples of its
\* input, in order.
C23_FramesAreTheInput ==
  \A k \in Conns :
    recorder[k].made =>
      LET e == C23_Emitted(k) IN
      /\ Len(e) = recorder[k].fed \div FrameLen
      /\ \A i \in DOMAIN e :
           /\ Len(e[i].samples) = FrameLen
           /\ \A j \in 1..FrameLen :
                e[i].samples[j] = Sample(k, (i - 1) * FrameLen + j)

\* C23's case: a batch was cut by the end of a frame, two frames were posted
\* and a sample is left in the accumulator.
C23_Witness ==
  \E k \in Conns :
    /\ recorder[k].made /\ recorder[k].split
    /\ recorder[k].posted >= 2
    /\ recorder[k].fed % FrameLen # 0

\* ---- C24 ----------------------------------------------------------------
\* Every frame posted so far, and every chunk encoded so far.
C24_Posted ==
  UNION {{ports[k][i] : i \in DOMAIN ports[k]} : k \in Conns}
  \cup {handled[i].frame : i \in DOMAIN handled}

C24_Encoded ==
  UNION {{sendWait[k][i] : i \in DOMAIN sendWait[k]} : k \in Conns}
  \cup {sent[i].chunk : i \in DOMAIN sent}

\* Frame or chunk f is a whole frame of samples its own node was given, none
\* of them from the residue of that node's input.
C24_Whole(f) ==
  /\ Len(f.samples) = FrameLen
  /\ \A j \in 1..FrameLen :
       /\ f.samples[j][1] = f.src
       /\ f.samples[j][2] \in 1..(FrameLen * (recorder[f.src].fed \div FrameLen))

C25_Handed(f, k) ==
  \/ \E i \in DOMAIN sent : sent[i] = [to |-> k, chunk |-> Chunk(f)]
  \/ \E i \in DOMAIN sendWait[k] : sendWait[k][i] = Chunk(f)
  \/ sess[k] = "failed"

\* A node exists only for a session whose onopen has fired, and a chunk is
\* sent only on such a session.
C25_NothingBeforeOpen ==
  /\ \A k \in Conns : recorder[k].made => sess[k] = "open"
  /\ \A i \in DOMAIN sent : sess[sent[i].to] = "open"

C26_Calls(d) == {i \in DOMAIN reports : reports[i].type = d}

\* C26: one update() calls onVolumeChange at most once for 'input' and at most
\* once for 'output', and the level it delivers is between 0.0 and 1.0 for
\* every window, by the RMS formula (level) and by the peak formula (peak);
\* so is the level of a window held at any one byte of 0..255.
C26_LevelsInRange ==
  /\ \A b \in 0..255 :
       LET w == [i \in 1..WinLen |-> b] IN
       /\ 0 <= Level(w) /\ Level(w) <= One
       /\ 0 <= PeakLevel(w, WinLen) /\ PeakLevel(w, WinLen) <= One
  /\ Cardinality(C26_Calls("input")) <= 1
  /\ Cardinality(C26_Calls("output")) <= 1
  /\ \A i \in DOMAIN reports :
       /\ reports[i].type \in {"input", "output"}
       /\ 0 <= reports[i].level /\ reports[i].level <= One
       /\ 0 <= reports[i].peak /\ reports[i].peak <= One

\* C26's case: a tick of the active client reported both directions, the
\* input from a window holding byte 0, where 4 * rms is above 1.0 and the
\* peak is exactly 1.0, the output below full scale.
C26_Witness ==
  /\ active /\ Len(reports) = 2
  /\ reports[1].type = "input" /\ reports[1].level = One /\ reports[1].peak = One
  /\ reports[2].type = "output" /\ reports[2].level \in 1..(One - 1)

\* ---- C27 ----------------------------------------------------------------
\* C27: a payload of 2n bytes decodes to n samples, sample i being the signed
\* 16-bit integer whose low byte is byte 2i and whose high byte is byte 2i+1
\* (counting from 0), over 32768, in payload order; so it is in [-1.0, 1.0).
C27_DecodedSamples ==
  codec.op = "decode" =>
    /\ 2 * Len(codec.output) = Len(codec.input)
    /\ \A i \in DOMAIN codec.output :
         LET s == codec.output[i] IN
         /\ -Scale <= s /\ s < Scale
         /\ (s - (codec.input[2 * i - 1] + 256 * codec.input[2 * i])) % 65536 = 0

\* C27's case: a payload of two pairs was decoded, the first to a negative
\* sample and the second, whose bytes differ, to a positive one.
C27_Witness ==
  /\ codec.op = "decode" /\ Len(codec.input) = 4
  /\ codec.input[3] # codec.input[4]
  /\ codec.output[1] < 0 /\ codec.output[2] > 0

\* ---- C28 ----------------------------------------------------------------
C28_Near(a, b) == a - b \in -1..1

\* C28: encoded and decoded again, a sample of 0.0 gives 0.0 exactly, 1.0
\* and -1.0 give a value within 1/32768 of themselves, and a sample out of
\* range gives what the nearest bound gives.
C28_RoundTrip ==
  codec.op = "roundtrip" =>
    \A i \in DOMAIN codec.input :
      LET x == codec.input[i]
          y == codec.output[i]
      IN /\ x = 0 => y = 0
         /\ x >= Steps => C28_Near(y, Scale)
         /\ x <= -Steps => C28_Near(y, -Scale)
         /\ \A j \in DOMAIN codec.input :
              /\ (x > Steps /\ codec.input[j] = Steps) => y = codec.output[j]
              /\ (x < -Steps /\ codec.input[j] = -Steps) => y = codec.output[j]

\* C28's case: a frame holding a sample below -1.0 next to -1.0 went through
\* the encoder and the decoder.
C28_Witness ==
  /\ codec.op = "roundtrip"
  /\ \E i, j \in DOMAIN codec.input :
       /\ codec.input[i] < -Steps /\ codec.input[j] = -Steps
       /\ codec.output[i] = codec.output[j] /\ codec.output[i] < 0

\* ---- C29 ----------------------------------------------------------------
\* A step in which connect() creates an analyser, starts the metering loop,
\* requests the microphone or opens the remote session.
C29_Acquires ==
  \/ inputAnalyser' # inputAnalyser
  \/ outputAnalyser' # outputAnalyser
  \/ raf' # raf /\ raf \subseteq raf'
  \/ \E k \in Conns : pcC[k] # "getUserMedia" /\ pcC'[k] = "getUserMedia"
  \/ \E k \in Conns : sess[k] = "none" /\ sess'[k] = "pending"

\* C29: after the first step of connect(), which sets active itself, no step
\* of connect() acquires anything in a state where active is false.
C29_CheckedAfterEveryAwait ==
  [][(C29_Acquires /\ \E k \in Conns : pcC[k] \in Suspended) => active]_vars

\* ---- C30 ----------------------------------------------------------------
\* The close event of session k is delivered after the client has replaced
\* it: its stop() has completed and a later connect() has been called.
C30_StaleClose(k) ==
  /\ ~oncloseFired[k] /\ oncloseFired'[k]
  /\ k < nConn /\ lastCall = "connect"
  /\ awaitIn = 0 /\ awaitOut = 0

\* C30: the close event of a replaced session leaves the new session alone:
\* the flag, the stream and its tracks, the contexts and the session handle
\* are as they were.
C30_StaleCloseHarmless ==
  [][\A k \in Conns :
       C30_StaleClose(k) =>
         /\ active' = active
         /\ stream' = stream /\ trackStops' = trackStops
         /\ inputContext' = inputContext /\ outputContext' = outputContext
         /\ inClose' = inClose /\ outClose' = outClose
         /\ currentSession' = currentSession]_vars

\* ---- C31 ----------------------------------------------------------------
\* The caller's last call is stop(), before this step and after it.
C31_Stopped == lastCall = "stop" /\ lastCall' = "stop"

\* C31: between a call of stop() and the next connect(), no step starts a
\* source and none changes nextStartTime.
C31_SilentAfterStop ==
  [][C31_Stopped => starts' = starts /\ nextStartTime' = nextStartTime]_vars

\* ---- C32 ----------------------------------------------------------------
\* C32: every source started plays a buffer whose payload was received in
\* the session of the output context it is started on.
C32_PlayedInItsSession ==
  \A i \in DOMAIN starts : starts[i].ctx = starts[i].sn

\* ---- C33 ----------------------------------------------------------------
\* The sends made on session k so far.
C33_SentOn(k) == SelectSeq(sent, LAMBDA m : m.to = k)

\* Once close() has been requested on session k, at once or on its pending
\* promise, no send is made on it and none is attached to its promise.
C33_NoSendAfterClose ==
  [][\A k \in Conns :
       /\ sessClose[k] > 0 => C33_SentOn(k)' = C33_SentOn(k)
       /\ closeWait[k] > 0 => Len(sendWait'[k]) <= Len(sendWait[k])]_vars

\* A frame the worklet posted while the client was not active is never
\* sent on a session, nor attached to the promise of one.
C33_LateFrameNeverSent ==
  \A i \in DOMAIN handled :
    ~handled[i].frame.act => Chunk(handled[i].frame) \notin C24_Encoded

\* C33: every send on a session precedes the close() of that session, and a
\* frame the worklet posted after stop() was called is never sent.
C33_SentBeforeClose ==
  C33_NoSendAfterClose /\ []C33_LateFrameNeverSent

\* ---- C34 ----------------------------------------------------------------
\* The step is a call of queueAudio, or handleMessage on an interruption.
C34_Scheduling ==
  \/ Len(decodedQ') < Len(decodedQ)
  \/ nMsgs' = nMsgs + 1 /\ msgs'[nMsgs'].interrupted

\* C34: a step that changes nextStartTime is a call of queueAudio or the
\* handling of an interruption; connect(), stop(), startAudioStreaming, the
\* metering loop and the capture path leave it as it is.
C34_OwnedByScheduler ==
  [][nextStartTime' # nextStartTime => C34_Scheduling]_vars

\* C34's case: a buffer was played and a frame sent in the first session, the
\* session was stopped and connect() was called again, and nextStartTime is
\* still where the buffer left it.
C34_Witness ==
  /\ nConn = 2 /\ lastCall = "connect" /\ sess[2] = "open"
  /\ sent # <<>>
  /\ Len(starts) = 1 /\ starts[1].ctx = 1
  /\ nextStartTime = starts[1].next /\ nextStartTime > 0

\* ---- C35 ----------------------------------------------------------------
\* C35: a call of stop() cancels the pending animation frame, and from then
\* until the next connect() no run of update() calls onVolumeChange or
\* requests another frame.
C35_QuietAfterStop ==
  [][/\ nStops' # nStops => cleanupFrame' = 0 /\ cleanupFrame \notin raf'
     /\ (lastCall = "stop" /\ lastCall' = "stop") =>
          /\ reports' # reports => reports' = <<>>
          /\ raf' \subseteq raf]_vars

\* C35's case: two metering loops were running, stop() cancelled the frame
\* of one, and the other ran after stop(): it made no call and no frame is
\* pending.
C35_Witness ==
  /\ nConn = 2 /\ lastCall = "stop"
  /\ sess[1] = "open" /\ sess[2] = "open"
  /\ reports = <<>> /\ raf = {}

\* ---- C36 ----------------------------------------------------------------
\* A step in which an activation of stop() runs to its end: the one that
\* resumes from the output context's close, the one that resumes from the
\* input context's close and does not suspend again, or a call of stop()
\* (by the caller or by onclose) that never suspends.
C36_StopEnds ==
  \/ awaitOut' < awaitOut
  \/ awaitIn' < awaitIn /\ awaitOut' = awaitOut
  \/ /\ nStops' # nStops \/ oncloseFired' # oncloseFired
     /\ awaitIn' = awaitIn /\ awaitOut' = awaitOut

\* C36: closing the session in stop() is fire-and-forget with its errors
\* swallowed: whatever became of the session (its promise rejected, the
\* remote side closed it, it is still pending, it is open), an activation of
\* stop() that runs to its end without calling close() on a context in that
\* step, so that nothing but the closing of the session can fail in it,
\* does not reject and leaves currentSession null.
C36_CloseSwallowed ==
  [][(C36_StopEnds /\ inClose' = inClose /\ outClose' = outClose) =>
       stopRejects' = stopRejects /\ currentSession' = 0]_vars

\* stop() has completed, without rejecting, on a session whose promise
\* rejected and on a session the remote side had closed.
C36_Witness ==
  /\ nConn = 2 /\ lastCall = "stop" /\ awaitIn = 0 /\ awaitOut = 0
  /\ sess[1] = "failed" /\ sess[2] = "open" /\ oncloseFired[2]
  /\ sessClose[2] > 0
  /\ currentSession = 0 /\ stopRejects = 0

\* ---- C37 ----------------------------------------------------------------
\* C37: a rejection of setSinkId does not abort the start.  Whether it was
\* fulfilled or rejected, the step that resumes connect() from setSinkId
\* creates both analysers and goes on to getUserMedia, provided the two
\* contexts are still there (a stop() that ran meanwhile, called by the
\* caller, by onclose or by another connect(), makes createAnalyser throw
\* whatever setSinkId did); and a connect() whose setSinkId rejected never
\* rejects with that failure, only with one that rejects it all the same
\* when setSinkId succeeds.
C37_GoesOn ==
  [][\A k \in Conns :
       (pcC[k] = "setSinkId" /\ pcC'[k] # "setSinkId") =>
         IF inputContext # 0 /\ outputContext # 0
         THEN /\ pcC'[k] = "getUserMedia"
              /\ inputAnalyser' = inputContext
              /\ outputAnalyser' = outputContext
         ELSE pcC'[k] = "rej_TypeError"]_vars

C37_NoRejection ==
  \A k \in Conns :
    sinkWarned[k] =>
      pcC[k] \in {"getUserMedia", "resolved", "rej_getUserMedia",
                  "rej_TypeError"}

C37_SinkFailureTolerated == C37_GoesOn /\ []C37_NoRejection

\* setSinkId rejected in the first connect(), which then returned with the
\* analysers made, the microphone acquired and the session open.
C37_Witness ==
  /\ sinkWarned[1] /\ pcC[1] = "resolved" /\ nConn = 1 /\ nStops = 0
  /\ active /\ inputAnalyser = 1 /\ outputAnalyser = 1
  /\ stream # 0 /\ currentSession = 1 /\ sess[1] = "open"

\* ---- C38 ----------------------------------------------------------------
\* C38: the active flag of App is true only while the client is active.
\* App has set the flag after its connect() returned and has not called
\* stop() since (AppActive); the client is then active, or a stop() that
\* somebody else called is still closing the contexts.
C38_LiveOnlyWhileActive ==
  AppActive => (active \/ awaitIn > 0 \/ awaitOut > 0)

====
